---- MODULE Spec2Model ----
(***************************************************************************)
(* Canvas state and persistence engine of the node-graph editor            *)
(* (FlowCanvas): the in-memory graph, the debounced auto-save effect, the  *)
(* manual save, the keyboard command layer and the remote canvases table.  *)
(*                                                                         *)
(* Time: setTimeout / setInterval guarantee a minimum delay only.  The     *)
(* 16 ms viewport interval runs time after time (ViewportPoll); the 2000   *)
(* ms debounce timer becomes due only when the host lets that much time    *)
(* pass without running the interval callback (Stall).                     *)
(*                                                                         *)
(* React: a state setter called with a value that is not Object.is-equal   *)
(* to the current one re-renders, and an effect re-runs when one of its    *)
(* dependencies changed identity.  All setters called in one handler (or   *)
(* one continuation after an await) are applied in one render, and the     *)
(* effects of that render run before the next event: one action.           *)
(***************************************************************************)
EXTENDS Integers, Sequences, FiniteSets, TLC

\* ---------------------------------------------------------------- bounds
MaxNodes == 2        \* nodes in the in-memory graph (Spec, SpecLong)
MaxEdits == 1        \* user mutations in one session (Spec)
MaxAttempts == 1     \* save attempts that reach the network (Spec)
LongEdits == 1       \* user mutations in one session (SpecLong)
LongAttempts == 3    \* save attempts that reach the network (SpecLong)
GraphEdits == 3      \* user mutations in one session (SpecGraph)
GraphNodes == 2      \* nodes in the in-memory graph (SpecGraph)
IdsEdits == 6        \* user mutations in one session (SpecIds)
IdsNodes == 4        \* nodes in the in-memory graph (SpecIds)
StoreAttempts == 2   \* save attempts in one session (SpecStore)
MaxFrames == 2       \* animation frames of the particle field (SpecUnmount)
ArrangeEdits == 6    \* user mutations in one session (SpecArrange)
ArrangeNodes == 5    \* nodes in the in-memory graph (SpecArrange)
MaxInFlight == 2     \* save requests in flight at once
MaxSpawns == 1       \* AI-model prompts submitted in one session

\* ---------------------------------------------------- program constants
DebounceDelay == 2000
DuplicateOffset == 50
DefaultName == "My Canvas"
NoId == 0
RecordIds == {1, 2}
CopyOfDefault == "My Canvas Copy"
CopyOfCopy == "My Canvas Copy Copy"
\* the names a session or a dashboard rename gives a canvas
StoreNames == {DefaultName, CopyOfDefault}
NoError == "null"
EmptyHash == <<>>
NoThumb == <<>>

V0 == [x |-> 0, y |-> 0, zoom |-> 1]
V1 == [x |-> 40, y |-> 0, zoom |-> 1]
Viewports == {V0, V1}

VARIABLES
  mounted,          \* the canvas view is mounted
  canvasIdProp,     \* the canvasId prop of the session
  budget,           \* exploration budget of the session: [edits, attempts, nodes, frames]
  animation,        \* particle field: animationRef, the frames the browser holds,
                    \* initializeParticles() calls since the field was set up
  nodes, edges,     \* useState<Node[]>, useState<Edge[]>
  viewport,         \* useState<Viewport>: the polled copy
  rfViewport,       \* the viewport held by the flow library (getViewport())
  nodeIdCounter,
  isLoaded, isSaving, saveError, lastSavedTime, currentCanvasId, canvasName,
  saveTimeout,      \* saveTimeoutRef: the debounce timer and the closure it runs
  lastSaveDataRef,  \* fingerprint of the last accepted debounced save
  keyHandler,       \* closure of the registered keydown handler
  loadPc,           \* "loading" | "done"
  inflight,         \* save requests awaiting the store
  spawns,           \* AI-model prompts awaiting their response
  spawned,          \* number of output nodes spawned so far
  store,            \* canvases table, most recently updated first
  \* history variables
  edits, attempts, sinceEdit, lastAuto, lastAccepted, failedPending, lastOp,
  lastRect

graphVars == <<nodes, edges, viewport, rfViewport, nodeIdCounter>>
statusVars == <<isLoaded, isSaving, saveError, lastSavedTime, currentCanvasId, canvasName>>
refVars == <<saveTimeout, lastSaveDataRef, keyHandler>>
asyncVars == <<loadPc, inflight, spawns, spawned, store>>
histVars == <<edits, attempts, sinceEdit, lastAuto, lastAccepted, failedPending, lastOp,
              lastRect>>
vars == <<mounted, canvasIdProp, budget, animation, graphVars, statusVars, refVars, asyncVars, histVars>>

\* ------------------------------------------------------------- helpers
Min(a, b) == IF a < b THEN a ELSE b
Max(a, b) == IF a > b THEN a ELSE b

RECURSIVE SeqMax(_)
SeqMax(s) == IF s = <<>> THEN 0 ELSE Max(Head(s), SeqMax(Tail(s)))

Range(s) == {s[i] : i \in DOMAIN s}
NodeIds(ns) == {ns[i].id : i \in DOMAIN ns}

\* A node: id is <<prefix, number>> for the string `${prefix}-${number}`.
MkNode(prefix, n, type, x, y) ==
  [id |-> <<prefix, n>>, type |-> type, x |-> x, y |-> y, selected |-> FALSE]

\* JSON.stringify({nodes, edges, viewport}): equal exactly when the three
\* parts are structurally equal.
DataHash(ns, es, vp) == <<ns, es, vp>>

\* ---------------------------------------------------- closures and refs
NoTimer ==
  [armed |-> FALSE, elapsed |-> 0, nodes |-> <<>>, edges |-> <<>>,
   canvasName |-> "", canvasId |-> NoId]

\* The auto-save effect (dependencies nodes, edges, viewport, isLoaded,
\* getViewport, currentCanvasId, canvasName): its cleanup clears the armed
\* timeout; when loaded it arms a new one whose callback closes over the
\* values of this render.
\* (variant: the effect without its isLoaded guard)
AutoSaveEffectUnguarded(loaded, ns, es, name, cid) ==
  [armed |-> TRUE, elapsed |-> 0, nodes |-> ns, edges |-> es,
   canvasName |-> name, canvasId |-> cid]

AutoSaveEffect(loaded, ns, es, name, cid) ==
  IF loaded
  THEN [armed |-> TRUE, elapsed |-> 0, nodes |-> ns, edges |-> es,
        canvasName |-> name, canvasId |-> cid]
  ELSE NoTimer

\* The keyboard effect (dependency nodes only) registers a handler that
\* closes over the render in which nodes last changed identity.
KeyboardEffect(ns, es, name, cid, ctr) ==
  [nodes |-> ns, edges |-> es, canvasName |-> name, canvasId |-> cid, counter |-> ctr]

\* (variant: an effect cleanup that cancels nothing)
CancelAnimationNone(a) == a

\* cleanup of the animation effect: cancelAnimationFrame(animationRef.current)
CancelAnimation(a) == [a EXCEPT !.scheduled = @ \ {a.ref}]

\* The animation effect of NeuralScaffold re-runs (dependencies width,
\* height, initializeParticles, animate): its cleanup cancels the pending
\* frame, its body calls initializeParticles() (new random particles, new
\* connections, energy 0) and requests a frame.
ScaffoldEffect(a) ==
  LET c == CancelAnimation(a)
  IN [c EXCEPT !.ref = a.ref + 1, !.scheduled = @ \cup {a.ref + 1}, !.inits = @ + 1]

\* A render of FlowCanvasInner passes a new activeNodes array to
\* NeuralScaffold: updateParticleEnergy and animate change identity and the
\* animation effect re-runs.  The field is followed while the session's
\* frame budget lasts.
reactState == <<nodes, edges, viewport, nodeIdCounter, statusVars>>
Render(always) ==
  animation' = IF mounted /\ animation.ref <= animation.frames
                          /\ (always \/ reactState' # reactState)
               THEN ScaffoldEffect(animation)
               ELSE animation

NoAuto == [n |-> 0, hash |-> EmptyHash, status |-> "none"]
NoAccepted == [hash |-> EmptyHash, kind |-> "none"]
NoOp == [op |-> "none", edgesBefore |-> 0]
NoRect == [x1 |-> 0, y1 |-> 0, x2 |-> 0, y2 |-> 0]

\* -------------------------------------------------------------- store
Rec(id, name, ns, es, vp, th) ==
  [id |-> id, name |-> name, nodes |-> ns, edges |-> es, viewport |-> vp, thumb |-> th]

StoredNode == [MkNode("text", 1, "textNode", 100, 100) EXCEPT !.selected = TRUE]
StoredNode2 == MkNode("text", 2, "textNode", 400, 100)
InitStores ==
  { <<>>,
    << Rec(1, DefaultName, <<StoredNode, StoredNode2>>, <<>>, V0, NoThumb) >> }

HasId(st, id) == \E i \in DOMAIN st : st[i].id = id
HasName(st, name) == \E i \in DOMAIN st : st[i].name = name
ById(st, id) == st[CHOOSE i \in DOMAIN st : st[i].id = id]
ByName(st, name) == st[CHOOSE i \in DOMAIN st : st[i].name = name]
Without(st, id) == SelectSeq(st, LAMBDA r : r.id # id)
FreshId(st) == CHOOSE id \in RecordIds : ~HasId(st, id) /\ \A j \in RecordIds : j < id => HasId(st, j)
\* updated_at = now(): the touched row becomes the most recently updated one.
Touch(st, r) == <<r>> \o Without(st, r.id)

\* The component after its first render and its mount effects (the load
\* effect has called setIsSaving(true) and awaits the store); b is the
\* exploration budget of the session (user mutations, save attempts, nodes
\* in the graph, animation frames).
Mount(b) ==
  /\ mounted = TRUE
  /\ budget = b
  /\ animation = [ref |-> 1, scheduled |-> {1}, frames |-> b.frames, inits |-> 0]
  /\ nodes = <<>> /\ edges = <<>>
  /\ viewport = V0 /\ rfViewport = V0
  /\ nodeIdCounter = 1
  /\ isLoaded = FALSE /\ isSaving = TRUE /\ saveError = NoError
  /\ lastSavedTime = "just now" /\ currentCanvasId = NoId /\ canvasName = DefaultName
  /\ saveTimeout = NoTimer
  /\ lastSaveDataRef = EmptyHash
  /\ keyHandler = KeyboardEffect(<<>>, <<>>, DefaultName, NoId, 1)
  /\ loadPc = "loading"
  /\ inflight = {} /\ spawns = {} /\ spawned = 0
  /\ store \in InitStores
  \* the dashboard opens a canvas it has listed
  /\ canvasIdProp \in {NoId} \cup {id \in RecordIds : HasId(store, id)}
  /\ edits = 0 /\ attempts = 0
  /\ sinceEdit = 0 /\ lastAuto = NoAuto /\ lastAccepted = NoAccepted
  /\ failedPending = FALSE /\ lastOp = NoOp /\ lastRect = NoRect

Init == Mount([edits |-> MaxEdits, attempts |-> MaxAttempts, nodes |-> MaxNodes, frames |-> 0])
InitLong == Mount([edits |-> LongEdits, attempts |-> LongAttempts, nodes |-> MaxNodes, frames |-> 0])
InitGraph == Mount([edits |-> GraphEdits, attempts |-> 0, nodes |-> GraphNodes, frames |-> 0])
InitIds == Mount([edits |-> IdsEdits, attempts |-> 0, nodes |-> IdsNodes, frames |-> 0])
\* a new canvas opened on an empty table
InitArrange == Mount([edits |-> ArrangeEdits, attempts |-> 0, nodes |-> ArrangeNodes, frames |-> 0])
InitStore ==
  /\ Mount([edits |-> 0, attempts |-> StoreAttempts, nodes |-> 0, frames |-> 0])
  /\ store = <<>>
InitThumb == Mount([edits |-> 0, attempts |-> StoreAttempts, nodes |-> 0, frames |-> 0])
InitUnmount ==
  Mount([edits |-> MaxEdits, attempts |-> MaxAttempts, nodes |-> MaxNodes, frames |-> MaxFrames])

\* --------------------------------------------------------------- time
TimerDue == saveTimeout.armed /\ saveTimeout.elapsed = DebounceDelay

\* The host is late: time passes until the debounce timer is due although
\* the 16 ms interval callback, due earlier, has not run yet.
Stall ==
  /\ mounted
  /\ saveTimeout.armed /\ saveTimeout.elapsed < DebounceDelay
  /\ saveTimeout' = [saveTimeout EXCEPT !.elapsed = DebounceDelay]
  /\ UNCHANGED <<mounted, canvasIdProp, budget, animation, graphVars, statusVars, lastSaveDataRef, keyHandler,
                 asyncVars, histVars>>

\* The interval elapses and updateViewport runs: setViewport(getViewport()).
\* getViewport returns a new object on every call, so the viewport state
\* changes identity and the auto-save effect re-runs.
ViewportPoll ==
  /\ mounted
  /\ viewport' = rfViewport
  /\ saveTimeout' = AutoSaveEffect(isLoaded, nodes, edges, canvasName, currentCanvasId)
  \* history: a viewport change becomes a state mutation when the poll copies it
  /\ sinceEdit' = IF viewport # rfViewport THEN 0 ELSE sinceEdit
  /\ UNCHANGED <<mounted, canvasIdProp, budget, nodes, edges, rfViewport, nodeIdCounter, statusVars,
                 lastSaveDataRef, keyHandler, asyncVars,
                 edits, lastOp, lastRect, attempts, lastAuto, lastAccepted, failedPending>>
  /\ Render(TRUE)

\* --------------------------------------------------------------- load
\* Math.max(0, ...nodes.map(suffix)) + 1, suffix = the digits after the last "-".
SeedCounter(ns) == SeqMax([i \in DOMAIN ns |-> ns[i].id[2]]) + 1

\* loadCanvasData after its await: the query result (or a thrown error) and
\* every setter up to the finally block.
LoadResponse ==
  /\ loadPc = "loading"
  /\ loadPc' = "done"
  /\ \E ok \in BOOLEAN :
     IF ~mounted
     THEN /\ ok
          /\ UNCHANGED <<graphVars, statusVars, saveTimeout, keyHandler>>
     ELSE IF ~ok
     THEN /\ saveError' = "Failed to load canvas data"
          /\ lastSavedTime' = "error"
          /\ isSaving' = FALSE /\ isLoaded' = TRUE
          /\ saveTimeout' = AutoSaveEffect(TRUE, nodes, edges, canvasName, currentCanvasId)
          /\ UNCHANGED <<graphVars, currentCanvasId, canvasName, keyHandler>>
     ELSE LET byId == canvasIdProp # NoId
              found == IF byId THEN HasId(store, canvasIdProp) ELSE HasName(store, DefaultName)
              rec == IF byId THEN ById(store, canvasIdProp) ELSE ByName(store, DefaultName)
              \* loadCanvas by id returns {...data, permission, isOwner}: an
              \* object even when no row matched; by name it returns null.
              truthy == byId \/ found
              ns == IF found THEN rec.nodes ELSE IF truthy THEN <<>> ELSE nodes
              es == IF found THEN rec.edges ELSE IF truthy THEN <<>> ELSE edges
              cid == IF byId THEN canvasIdProp ELSE IF found THEN rec.id ELSE NoId
              name == IF found THEN rec.name ELSE DefaultName
              ctr == IF truthy THEN SeedCounter(ns) ELSE nodeIdCounter
          IN /\ nodes' = ns /\ edges' = es
             /\ currentCanvasId' = cid /\ canvasName' = name
             /\ viewport' = IF found THEN rec.viewport ELSE viewport
             /\ rfViewport' = IF found THEN rec.viewport ELSE rfViewport
             /\ nodeIdCounter' = ctr
             /\ lastSavedTime' = IF truthy THEN "just now" ELSE "never"
             /\ isSaving' = FALSE /\ isLoaded' = TRUE
             /\ saveError' = saveError
             /\ saveTimeout' = AutoSaveEffect(TRUE, ns, es, name, cid)
             /\ keyHandler' = IF truthy THEN KeyboardEffect(ns, es, name, cid, ctr) ELSE keyHandler
  /\ sinceEdit' = 0
  /\ UNCHANGED <<mounted, canvasIdProp, budget, lastSaveDataRef, inflight, spawns, spawned,
                 store, edits, lastOp, lastRect, attempts, lastAuto, lastAccepted, failedPending>>
  /\ Render(FALSE)

\* --------------------------------------------------------- save requests
\* createThumbnailSvg(nodes, edges, viewport) as a data URL.
ThumbnailUrl(ns, es) == <<"svg", ns, es>>

\* A request occupies the lowest free slot until it has completed.
FreeSlot ==
  CHOOSE k \in 1..MaxInFlight :
    /\ \A r \in inflight : r.n # k
    /\ \A j \in 1..(k - 1) : \E q \in inflight : q.n = j

Request(n, kind, ns, es, vp, name, cid) ==
  [n |-> n, kind |-> kind, phase |-> IF ns # <<>> THEN "thumb" ELSE "save",
   nodes |-> ns, edges |-> es, viewport |-> vp, canvasName |-> name, canvasId |-> cid,
   thumb |-> NoThumb,
   \* history: was this snapshot already accepted (by the previous debounced
   \* attempt / by the last accepted save of any kind) when the attempt began
   dupAuto |-> lastAuto.status = "accepted" /\ lastAuto.hash = DataHash(ns, es, vp),
   dupAny |-> lastAccepted.hash = DataHash(ns, es, vp),
   afterKind |-> lastAccepted.kind,
   afterFail |-> failedPending,
   idle |-> sinceEdit >= 1,
   burst |-> edits >= 1,
   current |-> (ns = nodes /\ es = edges)]

\* saveCanvasData, the debounce timer's callback, up to its first await.
TimerFire ==
  /\ TimerDue
  /\ LET h == DataHash(saveTimeout.nodes, saveTimeout.edges, rfViewport)
         n == FreeSlot
     IN IF h = lastSaveDataRef
        THEN /\ lastAuto' = [n |-> 0, hash |-> h, status |-> "skipped"]
             /\ UNCHANGED <<isSaving, saveError, inflight, attempts>>
        ELSE /\ attempts < budget.attempts /\ Cardinality(inflight) < MaxInFlight
             /\ isSaving' = TRUE /\ saveError' = NoError
             /\ inflight' = inflight \cup
                  {Request(n, "auto", saveTimeout.nodes, saveTimeout.edges, rfViewport,
                           saveTimeout.canvasName, saveTimeout.canvasId)}
             /\ lastAuto' = [n |-> n, hash |-> h, status |-> "inflight"]
             /\ attempts' = attempts + 1
  /\ saveTimeout' = NoTimer
  /\ sinceEdit' = Min(sinceEdit + 1, 2)
  /\ UNCHANGED <<mounted, canvasIdProp, budget, graphVars, isLoaded, lastSavedTime, currentCanvasId,
                 canvasName, lastSaveDataRef, keyHandler, loadPc, spawns, spawned,
                 store, edits, lastOp, lastRect, lastAccepted, failedPending>>
  /\ Render(FALSE)

\* manualSave (Ctrl/Cmd+S), called through the registered keydown handler,
\* up to its first await.
ManualSave ==
  /\ mounted
  /\ attempts < budget.attempts /\ Cardinality(inflight) < MaxInFlight
  /\ LET n == FreeSlot IN
     /\ isSaving' = TRUE /\ saveError' = NoError
     /\ inflight' = inflight \cup
          {Request(n, "manual", keyHandler.nodes, keyHandler.edges, rfViewport,
                   keyHandler.canvasName, keyHandler.canvasId)}
  /\ attempts' = attempts + 1 /\ failedPending' = FALSE
  /\ UNCHANGED <<mounted, canvasIdProp, budget, graphVars, isLoaded, lastSavedTime, currentCanvasId,
                 canvasName, refVars, loadPc, spawns, spawned, store,
                 edits, lastOp, lastRect, sinceEdit, lastAuto, lastAccepted>>
  /\ Render(FALSE)

\* generateThumbnail(currentCanvasId || 'temp', ...): an update of the row
\* with that id, .single(); it throws when no row matched, and the caller
\* swallows the error and goes on without a thumbnail.
ThumbStep(r) ==
  /\ r.phase = "thumb"
  /\ \E ok \in BOOLEAN :
     LET hit == ok /\ r.canvasId # NoId /\ HasId(store, r.canvasId)
         url == ThumbnailUrl(r.nodes, r.edges)
     IN /\ (~ok => r.canvasId # NoId /\ HasId(store, r.canvasId))
        /\ store' = IF hit THEN Touch(store, [ById(store, r.canvasId) EXCEPT !.thumb = url])
                    ELSE store
        /\ inflight' = (inflight \ {r}) \cup
             {[r EXCEPT !.phase = "save", !.thumb = IF hit THEN url ELSE NoThumb]}
  /\ UNCHANGED <<mounted, canvasIdProp, budget, animation, graphVars, statusVars, refVars, loadPc, spawns, spawned,
                 edits, lastOp, lastRect, attempts, sinceEdit, lastAuto, lastAccepted, failedPending>>

\* (variant: saveCanvas always writes the thumbnail_url field)
SavedRowWithThumb(old, r) ==
  [old EXCEPT !.name = r.canvasName, !.nodes = r.nodes, !.edges = r.edges,
              !.viewport = r.viewport, !.thumb = r.thumb]

\* The row saveCanvas writes: thumbnail_url only when a thumbnail was made.
SavedRow(old, r) ==
  [old EXCEPT !.name = r.canvasName, !.nodes = r.nodes, !.edges = r.edges,
              !.viewport = r.viewport,
              !.thumb = IF r.thumb # NoThumb THEN r.thumb ELSE @]

\* canvasOperations.saveCanvas: update by id when the closure knows a record
\* id, otherwise upsert on (user_id, canvas_name).  The result, or the
\* reason it throws.
SaveCanvas(st, r, ok) ==
  IF ~ok THEN [ok |-> FALSE, store |-> st, id |-> NoId]
  ELSE IF r.canvasId # NoId
  THEN IF HasId(st, r.canvasId)
          /\ \A i \in DOMAIN st : st[i].name = r.canvasName => st[i].id = r.canvasId
       THEN [ok |-> TRUE, store |-> Touch(st, SavedRow(ById(st, r.canvasId), r)),
             id |-> r.canvasId]
       ELSE [ok |-> FALSE, store |-> st, id |-> NoId]
  ELSE IF HasName(st, r.canvasName)
  THEN [ok |-> TRUE, store |-> Touch(st, SavedRow(ByName(st, r.canvasName), r)),
        id |-> ByName(st, r.canvasName).id]
  ELSE IF \E id \in RecordIds : ~HasId(st, id)
  THEN [ok |-> TRUE,
        store |-> Touch(st, SavedRow(Rec(FreshId(st), r.canvasName, <<>>, <<>>, V0, NoThumb), r)),
        id |-> FreshId(st)]
  ELSE [ok |-> FALSE, store |-> st, id |-> NoId]

\* (variant: a catch block that logs and reports nothing)
FailMessageNone(r) == NoError

\* setSaveError(...) of the two catch blocks
FailMessage(r) == IF r.kind = "auto" THEN "Auto-save failed" ELSE "Save failed"

\* The await of saveCanvas and what follows it: on success the record id is
\* adopted and cleanup is requested; on error the catch and finally blocks.
SaveStep(r) ==
  /\ r.phase = "save"
  /\ \E ok \in BOOLEAN :
     LET res == SaveCanvas(store, r, ok) IN
     /\ store' = res.store
     /\ IF res.ok
        THEN /\ inflight' = (inflight \ {r}) \cup {[r EXCEPT !.phase = "cleanup"]}
             /\ currentCanvasId' = IF mounted /\ r.canvasId = NoId THEN res.id
                                   ELSE currentCanvasId
             /\ saveTimeout' = IF currentCanvasId' # currentCanvasId
                               THEN AutoSaveEffect(isLoaded, nodes, edges, canvasName,
                                                   currentCanvasId')
                               ELSE saveTimeout
             /\ UNCHANGED <<isSaving, saveError, lastSavedTime, lastAuto, failedPending>>
        ELSE /\ inflight' = inflight \ {r}
             /\ saveError' = IF mounted THEN FailMessage(r) ELSE saveError
             /\ lastSavedTime' = IF mounted THEN "error" ELSE lastSavedTime
             /\ isSaving' = IF mounted THEN FALSE ELSE isSaving
             /\ lastAuto' = IF lastAuto.n = r.n
                            THEN [lastAuto EXCEPT !.status = "rejected", !.n = 0]
                            ELSE lastAuto
             /\ failedPending' = (failedPending \/ (r.nodes = nodes /\ r.edges = edges))
             /\ UNCHANGED <<currentCanvasId, saveTimeout>>
  /\ UNCHANGED <<mounted, canvasIdProp, budget, graphVars, isLoaded, canvasName, lastSaveDataRef,
                 keyHandler, loadPc, spawns, spawned,
                 edits, lastOp, lastRect, attempts, sinceEdit, lastAccepted>>
  /\ Render(FALSE)

\* (variant: slice(0), every row of the name is deleted)
CleanupOldVersionsAll(st, name, ok) ==
  IF ~ok THEN st ELSE SelectSeq(st, LAMBDA row : row.name # name)

\* canvasOperations.cleanupOldVersions: keep the most recently updated row
\* of this name, delete the others; every error is swallowed.
CleanupOldVersions(st, name, ok) ==
  LET allCanvases == SelectSeq(st, LAMBDA row : row.name = name)
      idsToDelete == {allCanvases[i].id : i \in 2..Len(allCanvases)}
  IN IF ~ok THEN st
     ELSE SelectSeq(st, LAMBDA row : row.id \notin idsToDelete)

\* (variant: cleanupOldVersions lets its errors reach the caller)
CleanupRethrows(ok) == ~ok

\* cleanupOldVersions returns or logs inside its own try / catch: the
\* awaiting save never sees an exception from it.
CleanupThrows(ok) == FALSE

\* The await of cleanupOldVersions and the rest of the try block; the
\* fingerprint is recorded by the debounced save only.
CleanupStep(r) ==
  /\ r.phase = "cleanup"
  /\ \E ok \in BOOLEAN :
     /\ store' = CleanupOldVersions(store, r.canvasName, ok)
     /\ IF CleanupThrows(ok)
        THEN /\ saveError' = IF mounted THEN FailMessage(r) ELSE saveError
             /\ lastSavedTime' = IF mounted THEN "error" ELSE lastSavedTime
             /\ lastAuto' = IF lastAuto.n = r.n
                            THEN [lastAuto EXCEPT !.status = "rejected", !.n = 0]
                            ELSE lastAuto
             /\ failedPending' = (failedPending \/ (r.nodes = nodes /\ r.edges = edges))
             /\ UNCHANGED <<lastSaveDataRef, lastAccepted>>
        ELSE /\ lastSaveDataRef' = IF r.kind = "auto"
                                   THEN DataHash(r.nodes, r.edges, r.viewport)
                                   ELSE lastSaveDataRef
             /\ lastSavedTime' = IF mounted THEN "just now" ELSE lastSavedTime
             /\ lastAuto' = IF lastAuto.n = r.n
                            THEN [lastAuto EXCEPT !.status = "accepted", !.n = 0]
                            ELSE lastAuto
             /\ lastAccepted' = [hash |-> DataHash(r.nodes, r.edges, r.viewport),
                                 kind |-> r.kind]
             /\ UNCHANGED <<saveError, failedPending>>
  /\ inflight' = inflight \ {r}
  /\ isSaving' = IF mounted THEN FALSE ELSE isSaving
  /\ UNCHANGED <<mounted, canvasIdProp, budget, graphVars, isLoaded, currentCanvasId,
                 canvasName, saveTimeout, keyHandler, loadPc, spawns, spawned,
                 edits, lastOp, lastRect, attempts, sinceEdit>>
  /\ Render(FALSE)

\* ----------------------------------------------------------- dashboard
\* `${canvas.canvas_name} Copy`
CopyName(name) == IF name = DefaultName THEN CopyOfDefault ELSE CopyOfCopy

\* (variant: a canvases table without the unique_user_canvas constraint)
RenameCanvasUnchecked(st, id, name) ==
  IF HasId(st, id) THEN Touch(st, [ById(st, id) EXCEPT !.name = name]) ELSE st

\* canvasOperations.renameCanvas: update canvas_name by id, .single(); the
\* unique_user_canvas constraint rejects a name another row of the owner has.
RenameCanvas(st, id, name) ==
  IF HasId(st, id) /\ \A i \in DOMAIN st : st[i].name = name => st[i].id = id
  THEN Touch(st, [ById(st, id) EXCEPT !.name = name])
  ELSE st

\* canvasOperations.deleteCanvas: delete by id.
DeleteCanvas(st, id) == Without(st, id)

\* handleRenameCanvas: the dashboard renames a canvas it has listed; the row
\* may be gone by the time the request reaches the store.
DashRename(id, name) ==
  /\ RenameCanvas(store, id, name) # store
  /\ store' = RenameCanvas(store, id, name)
  /\ UNCHANGED <<mounted, canvasIdProp, budget, animation, graphVars, statusVars, refVars, loadPc,
                 inflight, spawns, spawned, histVars>>

\* handleDuplicateCanvas: saveCanvas without a record id, named after the
\* listed canvas.
DashDuplicate(i) ==
  /\ i \in DOMAIN store /\ CopyName(store[i].name) \in StoreNames
  /\ LET src == store[i]
         req == [canvasId |-> NoId, canvasName |-> CopyName(src.name), nodes |-> src.nodes,
                 edges |-> src.edges, viewport |-> src.viewport, thumb |-> NoThumb]
         res == SaveCanvas(store, req, TRUE)
     IN /\ res.ok /\ res.store # store
        /\ store' = res.store
  /\ UNCHANGED <<mounted, canvasIdProp, budget, animation, graphVars, statusVars, refVars, loadPc,
                 inflight, spawns, spawned, histVars>>

\* handleDeleteCanvas, confirmed by the user.
DashDelete(id) ==
  /\ HasId(store, id)
  /\ store' = DeleteCanvas(store, id)
  /\ UNCHANGED <<mounted, canvasIdProp, budget, animation, graphVars, statusVars, refVars, loadPc,
                 inflight, spawns, spawned, histVars>>

\* ------------------------------------------------------- graph mutations
\* One render after a handler changed nodes and/or edges: the auto-save
\* effect re-arms the timer, and the keyboard effect re-registers its
\* handler only when nodes changed identity.
GraphEdit(op, ns, es, ctr, nodesChanged) ==
  /\ mounted /\ edits < budget.edits
  /\ nodes' = ns /\ edges' = es /\ nodeIdCounter' = ctr
  /\ saveTimeout' = AutoSaveEffect(isLoaded, ns, es, canvasName, currentCanvasId)
  /\ keyHandler' = IF nodesChanged
                   THEN KeyboardEffect(ns, es, canvasName, currentCanvasId, ctr)
                   ELSE keyHandler
  /\ edits' = edits + 1 /\ sinceEdit' = 0 /\ failedPending' = FALSE
  /\ lastOp' = [op |-> op, edgesBefore |-> Len(edges)]
  /\ UNCHANGED <<mounted, canvasIdProp, budget, viewport, rfViewport, statusVars,
                 lastSaveDataRef, loadPc, inflight, store, attempts, lastAuto,
                 lastAccepted>>
  /\ Render(TRUE)

\* screenToFlowPosition of the flow library: (screen - translation) / zoom.
ScreenToFlow(px, py, vp) == [x |-> (px - vp.x) \div vp.zoom, y |-> (py - vp.y) \div vp.zoom]

CreateTypes == {"text", "aiModel"}
NodeTypeOf(t) == IF t = "text" THEN "textNode" ELSE IF t = "aiModel" THEN "aiModelNode" ELSE "default"
\* node.type?.replace('Node', '') || 'node'
PrefixOfType(type) ==
  IF type = "textNode" THEN "text"
  ELSE IF type = "aiModelNode" THEN "aiModel"
  ELSE IF type = "llmOutputNode" THEN "llmOutput"
  ELSE type

\* handleCreateNode (and handleSelectAIModel for the aiModel type)
CreateNode(t) ==
  /\ Len(nodes) < budget.nodes
  /\ LET p == ScreenToFlow(100, 100, rfViewport)
         n == MkNode(t, nodeIdCounter, NodeTypeOf(t), p.x, p.y)
     IN GraphEdit("create", Append(nodes, n), edges, nodeIdCounter + 1, TRUE)
  /\ UNCHANGED <<spawns, spawned, lastRect>>

\* addEdge of the flow library: refuses a connection without source or
\* target and one that already exists, otherwise appends the edge.
EdgeOf(s, t) == [id |-> <<s, t>>, source |-> s, target |-> t]
AddEdge(s, t, es) ==
  IF \E i \in DOMAIN es : es[i].source = s /\ es[i].target = t THEN es
  ELSE Append(es, EdgeOf(s, t))

\* onConnect: the library offers the handles of rendered nodes only.
Connect(s, t) ==
  /\ s \in NodeIds(nodes) /\ t \in NodeIds(nodes)
  /\ AddEdge(s, t, edges) # edges
  /\ GraphEdit("connect", nodes, AddEdge(s, t, edges), nodeIdCounter, FALSE)
  /\ UNCHANGED <<spawns, spawned, lastRect>>

SelectedIds(ns) == {ns[i].id : i \in {j \in DOMAIN ns : ns[j].selected}}

\* handleKeyDown, Delete / Backspace
DeleteNodes(ns, ids) == SelectSeq(ns, LAMBDA n : n.id \notin ids)
\* (variant: edges are left alone when nodes are deleted)
DeleteEdgesKept(es, ids) == es

DeleteEdges(es, ids) == SelectSeq(es, LAMBDA e : e.source \notin ids /\ e.target \notin ids)
DeleteSelected ==
  LET ids == SelectedIds(keyHandler.nodes) IN
  /\ ids # {}
  /\ GraphEdit("delete", DeleteNodes(nodes, ids), DeleteEdges(edges, ids), nodeIdCounter, TRUE)
  /\ UNCHANGED <<spawns, spawned, lastRect>>

\* duplicateSelectedNodes
Duplicates(ns, ctr) ==
  LET sel == SelectSeq(ns, LAMBDA n : n.selected) IN
  [i \in DOMAIN sel |->
     [sel[i] EXCEPT !.id = <<PrefixOfType(sel[i].type), ctr + Len(ns)>>,
                    !.x = @ + DuplicateOffset, !.y = @ + DuplicateOffset,
                    !.selected = FALSE]]
Deselect(ns) == [i \in DOMAIN ns |-> [ns[i] EXCEPT !.selected = FALSE]]
DuplicateSelected ==
  LET new == Duplicates(keyHandler.nodes, keyHandler.counter) IN
  /\ new # <<>>
  /\ Len(nodes) + Len(new) <= budget.nodes
  /\ GraphEdit("duplicate", Deselect(nodes) \o new, edges, nodeIdCounter + Len(new), TRUE)
  /\ UNCHANGED <<spawns, spawned, lastRect>>

\* handleKeyDown, Ctrl/Cmd+A
SelectAll ==
  /\ GraphEdit("selectAll", [i \in DOMAIN nodes |-> [nodes[i] EXCEPT !.selected = TRUE]],
               edges, nodeIdCounter, TRUE)
  /\ UNCHANGED <<spawns, spawned, lastRect>>

\* Selection by id: the flow library's select changes, and the marquee's
\* selectedNodeIds.includes(node.id), reach every node that has the id.
SelectIds(ns, ids) == [j \in DOMAIN ns |-> [ns[j] EXCEPT !.selected = (ns[j].id \in ids)]]

\* onNodesChange with the select changes of a click on node i
ClickNode(i) ==
  /\ i \in DOMAIN nodes
  /\ SelectIds(nodes, {nodes[i].id}) # nodes
  /\ GraphEdit("click", SelectIds(nodes, {nodes[i].id}), edges, nodeIdCounter, TRUE)
  /\ UNCHANGED <<spawns, spawned, lastRect>>

\* handleMouseMove while a selection box is dragged: r is the box in
\* container coordinates, corners already ordered by Math.min / Math.max.
NodeWidth == 250
NodeHeight == 150
MarqueeRects ==
  { [x1 |-> 90, y1 |-> 90, x2 |-> 360, y2 |-> 260],
    [x1 |-> 0, y1 |-> 0, x2 |-> 1000, y2 |-> 1000] }
InsideBox(n, a, b) ==
  /\ n.x >= a.x /\ n.y >= a.y
  /\ n.x + NodeWidth <= b.x /\ n.y + NodeHeight <= b.y
Marquee(r) ==
  LET flowStart == ScreenToFlow(r.x1, r.y1, rfViewport)
      flowEnd == ScreenToFlow(r.x2, r.y2, rfViewport)
      selectedNodeIds == {n.id : n \in {m \in Range(nodes) : InsideBox(m, flowStart, flowEnd)}}
  IN /\ GraphEdit("marquee", SelectIds(nodes, selectedNodeIds), edges, nodeIdCounter, TRUE)
     /\ lastRect' = r
     /\ UNCHANGED <<spawns, spawned>>

\* organizeNodes
RECURSIVE CeilSqrt(_, _)
CeilSqrt(n, c) == IF c * c >= n THEN c ELSE CeilSqrt(n, c + 1)
CeilDiv(a, b) == (a + b - 1) \div b
GridSpacing == 300
\* (variant: the grid starts at the origin instead of being centered on it)
ArrangeFromOrigin(ns, count) ==
  LET cols == CeilSqrt(count, 0)
  IN [i \in DOMAIN ns |->
        [ns[i] EXCEPT !.x = ((i - 1) % cols) * GridSpacing,
                      !.y = ((i - 1) \div cols) * GridSpacing]]
Arrange(ns, count) ==
  LET cols == CeilSqrt(count, 0)
      startX == 0 - ((cols - 1) * GridSpacing) \div 2
      startY == 0 - ((CeilDiv(count, cols) - 1) * GridSpacing) \div 2
  IN [i \in DOMAIN ns |->
        [ns[i] EXCEPT !.x = startX + ((i - 1) % cols) * GridSpacing,
                      !.y = startY + ((i - 1) \div cols) * GridSpacing]]
OrganizeNodes ==
  /\ Len(keyHandler.nodes) # 0
  /\ GraphEdit("organize", Arrange(nodes, Len(keyHandler.nodes)), edges, nodeIdCounter, TRUE)
  /\ UNCHANGED <<spawns, spawned, lastRect>>

\* ------------------------------------------------- viewport, name, unmount
\* A pan or zoom gesture moves the library's viewport; the canvas state
\* follows at the next poll.
Pan ==
  /\ mounted /\ edits < budget.edits
  /\ \E vp \in Viewports \ {rfViewport} : rfViewport' = vp
  /\ edits' = edits + 1 /\ sinceEdit' = 0 /\ failedPending' = FALSE
  /\ lastOp' = [op |-> "pan", edgesBefore |-> Len(edges)]
  /\ UNCHANGED <<mounted, canvasIdProp, budget, animation, nodes, edges, viewport, nodeIdCounter, statusVars,
                 refVars, asyncVars, attempts, lastAuto, lastAccepted, lastRect>>

\* handleCanvasNameChange: setCanvasName; canvasName is a dependency of the
\* auto-save effect, not of the keyboard effect.
CanvasNameChange(name) ==
  /\ mounted /\ name # canvasName
  /\ canvasName' = name
  /\ saveTimeout' = AutoSaveEffect(isLoaded, nodes, edges, name, currentCanvasId)
  /\ sinceEdit' = 0
  /\ UNCHANGED <<mounted, canvasIdProp, budget, graphVars, isLoaded, isSaving, saveError,
                 lastSavedTime, currentCanvasId, lastSaveDataRef, keyHandler, asyncVars,
                 edits, lastOp, lastRect, attempts, lastAuto, lastAccepted, failedPending>>
  /\ Render(FALSE)

\* animate, called by the browser for a scheduled frame: update, render and
\* request the next frame.
AnimationFrame(h) ==
  /\ h \in animation.scheduled
  /\ animation.ref <= animation.frames
  /\ animation' = [animation EXCEPT !.ref = @ + 1,
                                     !.scheduled = (@ \ {h}) \cup {animation.ref + 1}]
  /\ UNCHANGED <<mounted, canvasIdProp, budget, graphVars, statusVars, refVars, asyncVars,
                 histVars>>

\* The view is left: effect cleanups clear the debounce timer and the
\* viewport interval, remove the keydown handler and cancel the pending
\* animation frame.
Unmount ==
  /\ mounted
  /\ mounted' = FALSE
  /\ saveTimeout' = NoTimer
  /\ animation' = CancelAnimation(animation)
  /\ UNCHANGED <<canvasIdProp, budget, graphVars, statusVars, lastSaveDataRef, keyHandler, asyncVars,
                 edits, lastOp, lastRect, attempts, sinceEdit, lastAuto, lastAccepted,
                 failedPending>>

\* ------------------------------------------------------ AI-model output
\* Date.now() at the k-th spawn: later than every counter value.
Now(k) == 1000000 + k

\* AIModelNode.handleSubmit up to its await: the node's position is the
\* xPos / yPos of the render that created the handler.
SubmitPrompt(i) ==
  /\ mounted
  /\ i \in DOMAIN nodes /\ nodes[i].type = "aiModelNode"
  /\ spawned + Cardinality(spawns) < MaxSpawns
  /\ spawns' = spawns \cup {[x |-> nodes[i].x, y |-> nodes[i].y, k |-> spawned + Cardinality(spawns)]}
  /\ UNCHANGED <<mounted, canvasIdProp, budget, animation, graphVars, statusVars, refVars, loadPc, inflight,
                 spawned, store, edits, lastOp, lastRect, attempts, sinceEdit, lastAuto,
                 lastAccepted, failedPending>>

\* handleSubmit after its await: the output node is appended; the following
\* setEdges(...) names no binding in scope (the component takes setNodes and
\* addEdge from useReactFlow), so it throws, the catch block records
\* data.error, and no edge is added.
SpawnOutput(sp) ==
  /\ sp \in spawns
  /\ Len(nodes) < budget.nodes
  /\ LET p == ScreenToFlow(sp.x, sp.y, rfViewport)
         out == MkNode("llm-output", Now(sp.k), "llmOutputNode", p.x + 450, p.y + 50)
     IN GraphEdit("spawn", Append(nodes, out), edges, nodeIdCounter, TRUE)
  /\ spawns' = spawns \ {sp}
  /\ spawned' = spawned + 1
  /\ UNCHANGED lastRect

\* ------------------------------------------------------------ behaviour
\* The session with its timers and its save requests; the user adds
\* nodes, connects them and pans.
Next ==
  \/ Stall
  \/ ViewportPoll
  \/ LoadResponse
  \/ TimerFire
  \/ ManualSave
  \/ \E r \in inflight : ThumbStep(r)
  \/ \E r \in inflight : SaveStep(r)
  \/ \E r \in inflight : CleanupStep(r)
  \/ CreateNode("text")
  \/ \E s \in NodeIds(nodes), t \in NodeIds(nodes) : Connect(s, t)
  \/ Pan

Spec == Init /\ [][Next]_vars
SpecLong == InitLong /\ [][Next]_vars

\* The command layer: every graph operation of the session, without the
\* passage of time.
GraphNext ==
  \/ LoadResponse
  \/ \E t \in CreateTypes : CreateNode(t)
  \/ \E s \in NodeIds(nodes), t \in NodeIds(nodes) : Connect(s, t)
  \/ DeleteSelected
  \/ DuplicateSelected
  \/ SelectAll
  \/ \E i \in DOMAIN nodes : ClickNode(i)
  \/ OrganizeNodes
  \/ \E i \in DOMAIN nodes : SubmitPrompt(i)
  \/ \E sp \in spawns : SpawnOutput(sp)

SpecGraph == InitGraph /\ [][GraphNext]_vars

\* Sessions that build a graph of several nodes and arrange it.
ArrangeNext ==
  \/ LoadResponse
  \/ CreateNode("text")
  \/ \E i \in DOMAIN nodes : Connect(nodes[1].id, nodes[i].id)
  \/ SelectAll
  \/ OrganizeNodes

SpecArrange == InitArrange /\ [][ArrangeNext]_vars

\* Node identity: creation, selection, duplication and deletion over a
\* longer session with more nodes.
IdsNext ==
  \/ LoadResponse
  \/ CreateNode("text")
  \/ \E i \in DOMAIN nodes : ClickNode(i)
  \/ DuplicateSelected
  \/ DeleteSelected
  \/ SelectAll
  \/ \E r \in MarqueeRects : Marquee(r)
  \/ Pan

SpecIds == InitIds /\ [][IdsNext]_vars

\* A session and a dashboard working on the same canvases table (the
\* canvas stays empty, so no save enters its thumbnail phase).
StoreNext ==
  \/ Stall
  \/ LoadResponse
  \/ TimerFire
  \/ \E r \in inflight : SaveStep(r)
  \/ \E r \in inflight : CleanupStep(r)
  \/ \E name \in StoreNames : CanvasNameChange(name)
  \/ \E id \in RecordIds, name \in StoreNames : DashRename(id, name)
  \/ \E i \in DOMAIN store : DashDuplicate(i)
  \/ \E id \in RecordIds : DashDelete(id)

SpecStore == InitStore /\ [][StoreNext]_vars

\* Debounced saves of a canvas, renamed at will, each with its thumbnail.
ThumbNext ==
  \/ Stall
  \/ LoadResponse
  \/ TimerFire
  \/ \E r \in inflight : ThumbStep(r)
  \/ \E r \in inflight : SaveStep(r)
  \/ \E r \in inflight : CleanupStep(r)
  \/ \E name \in StoreNames : CanvasNameChange(name)

SpecThumb == InitThumb /\ [][ThumbNext]_vars

\* The editor opened on a canvas that the dashboard may delete before the
\* load query is answered.
StaleNext ==
  \/ Stall
  \/ LoadResponse
  \/ TimerFire
  \/ \E r \in inflight : ThumbStep(r)
  \/ \E r \in inflight : SaveStep(r)
  \/ \E r \in inflight : CleanupStep(r)
  \/ \E id \in RecordIds : DashDelete(id)

SpecStale == InitThumb /\ [][StaleNext]_vars

\* A session that is left while saves and frames are pending.
UnmountNext ==
  \/ Stall
  \/ ViewportPoll
  \/ LoadResponse
  \/ TimerFire
  \/ ManualSave
  \/ \E r \in inflight : ThumbStep(r)
  \/ \E r \in inflight : SaveStep(r)
  \/ \E r \in inflight : CleanupStep(r)
  \/ CreateNode("text")
  \/ \E h \in animation.scheduled : AnimationFrame(h)
  \/ Unmount

SpecUnmount == InitUnmount /\ [][UnmountNext]_vars

TypeOK ==
  /\ mounted \in BOOLEAN /\ isLoaded \in BOOLEAN /\ isSaving \in BOOLEAN
  /\ Len(nodes) <= Max(budget.nodes, 2)
  /\ edits <= budget.edits /\ attempts <= budget.attempts
  /\ Cardinality(inflight) <= MaxInFlight

\* ---------------------------------------------------------------- claims
AutoRequests == {r \in inflight : r.kind = "auto"}
ManualRequests == {r \in inflight : r.kind = "manual"}
Dangling(ns, es) == {e \in Range(es) : e.source \notin NodeIds(ns) \/ e.target \notin NodeIds(ns)}

\* C11: delete-selected with a non-empty set S of selected nodes removes, in
\* one step, exactly the nodes in S and exactly the edges with an endpoint
\* in S; every other node and edge is left unchanged, in its place.
DeleteStep == lastOp'.op = "delete" /\ edits' = edits + 1
C11_DeleteExactlySelected ==
  [][DeleteStep =>
       LET S == {n \in Range(nodes) : n.selected}
           ids == {n.id : n \in S}
       IN /\ S # {}
          /\ nodes' = SelectSeq(nodes, LAMBDA n : n \notin S)
          /\ edges' = SelectSeq(edges, LAMBDA e : e.source \notin ids /\ e.target \notin ids)]_vars

\* C12: in every reachable state the ids of the nodes in the graph are
\* pairwise distinct.
C12_DistinctNodeIds ==
  \A i, j \in DOMAIN nodes : i # j => nodes[i].id # nodes[j].id

\* C13: duplicate-selected with N selected nodes appends N nodes whose ids
\* are pairwise distinct and differ from every id already in the graph, each
\* at its original's position plus (50, 50) with selected = false, and
\* advances the id counter by N; the original nodes and all edges stay.
DuplicateStep == lastOp'.op = "duplicate" /\ edits' = edits + 1
C13_DuplicateAddsFreshNodes ==
  [][DuplicateStep =>
       LET sel == SelectSeq(nodes, LAMBDA n : n.selected)
           N == Len(sel)
           new == SubSeq(nodes', Len(nodes) + 1, Len(nodes'))
       IN /\ Len(nodes') = Len(nodes) + N
          /\ \A i \in 1..N :
               /\ new[i].id \notin NodeIds(nodes)
               /\ \A j \in 1..N : i # j => new[i].id # new[j].id
               /\ new[i].x = sel[i].x + DuplicateOffset
               /\ new[i].y = sel[i].y + DuplicateOffset
               /\ new[i].type = sel[i].type
               /\ ~new[i].selected
          /\ \A i \in DOMAIN nodes :
               nodes'[i] = [nodes[i] EXCEPT !.selected = nodes'[i].selected]
          /\ nodeIdCounter' = nodeIdCounter + N
          /\ edges' = edges]_vars

\* C14: marquee selection sets selected = true on exactly the nodes whose
\* whole 250 x 150 box lies inside the drag rectangle converted to graph
\* space, and selected = false on every other node.
MarqueeStep == lastOp'.op = "marquee" /\ edits' = edits + 1
C14_MarqueeSelectsContained ==
  [][MarqueeStep =>
       LET r == lastRect'
           zoom == rfViewport.zoom
           left == (r.x1 - rfViewport.x) \div zoom
           top == (r.y1 - rfViewport.y) \div zoom
           right == (r.x2 - rfViewport.x) \div zoom
           bottom == (r.y2 - rfViewport.y) \div zoom
       IN /\ Len(nodes') = Len(nodes)
          /\ \A i \in DOMAIN nodes :
               /\ nodes'[i] = [nodes[i] EXCEPT !.selected = nodes'[i].selected]
               /\ nodes'[i].selected <=>
                    /\ left <= nodes[i].x /\ nodes[i].x + 250 <= right
                    /\ top <= nodes[i].y /\ nodes[i].y + 150 <= bottom]_vars

\* C15: a connect request whose source and target are the same node is a
\* no-op, so no edge with source = target ever exists in the graph.
C15_NoSelfLoops == \A i \in DOMAIN edges : edges[i].source # edges[i].target

\* C16: in every reachable store state no two canvas records of the owner
\* share a name, under any interleaving of session saves, dashboard rename,
\* dashboard duplicate and delete.
C16_UniqueOwnerName ==
  \A i, j \in DOMAIN store : store[i].name = store[j].name => i = j
\* two rows exist while two first saves of a new canvas overlap
C16_Witness ==
  /\ Len(store) = 2
  /\ \E r1, r2 \in inflight : r1 # r2 /\ r1.canvasId = NoId /\ r2.canvasId = NoId

\* C17: when the retention cleanup of a save completes and the saved record
\* is still in the store, exactly one record of the saved name remains, it
\* is the most recently updated one of that name, and the records of every
\* other name are left as they were.
Named(st, name) == SelectSeq(st, LAMBDA row : row.name = name)
NotNamed(st, name) == SelectSeq(st, LAMBDA row : row.name # name)
C17_CleanupKeepsLatest ==
  [][\A r \in inflight :
       (r.phase = "cleanup" /\ r \notin inflight') =>
         /\ NotNamed(store', r.canvasName) = NotNamed(store, r.canvasName)
         /\ IF HasName(store, r.canvasName)
            THEN Named(store', r.canvasName) = <<Named(store, r.canvasName)[1]>>
            ELSE store' = store]_vars
\* an accepted save awaits its cleanup while the table holds the saved
\* canvas and a canvas of another name
C17_Witness ==
  \E r \in inflight :
    /\ r.phase = "cleanup" /\ HasName(store, r.canvasName)
    /\ Len(store) = 2 /\ lastAccepted.kind = "auto"

\* C18: whatever the outcome of the retention cleanup (listing or deleting
\* may fail), the save whose cleanup completes counts as accepted: the step
\* raises no error, the label becomes "just now", the saving flag is
\* cleared and the debounced save records its fingerprint as last accepted.
C18_CleanupFailureNotSurfaced ==
  [][\A r \in inflight :
       (r.phase = "cleanup" /\ r \notin inflight') =>
         /\ saveError' = saveError
         /\ lastSavedTime' = "just now"
         /\ isSaving' = FALSE
         /\ r.kind = "auto" =>
              lastSaveDataRef' = DataHash(r.nodes, r.edges, r.viewport)]_vars
\* a debounced save has gone through its cleanup
C18_Witness ==
  /\ lastAuto.status = "accepted" /\ inflight = {}
  /\ lastSaveDataRef = lastAuto.hash /\ lastSaveDataRef # EmptyHash
  /\ saveError = NoError /\ lastSavedTime = "just now" /\ ~isSaving

\* C19: a save whose thumbnail synthesis failed still upserts its nodes,
\* edges and viewport, with the thumbnail field left out (the stored
\* thumbnail stays as it was), and ends as a success when the upsert is
\* accepted; a save of an empty node list attempts no thumbnail synthesis.
NoThumbnailMade(r) == r.nodes # <<>> /\ r.phase # "thumb" /\ r.thumb = NoThumb
C19_ThumbnailFailureNotFatal ==
  [][\A r \in inflight :
       /\ r.nodes = <<>> => r.phase # "thumb" /\ r.thumb = NoThumb
       /\ (NoThumbnailMade(r) /\ r.phase = "save"
             /\ [r EXCEPT !.phase = "cleanup"] \in inflight') =>
            LET row == store'[1]
                before == IF HasId(store, row.id) THEN ById(store, row.id).thumb
                          ELSE NoThumb
            IN /\ row.nodes = r.nodes /\ row.edges = r.edges
               /\ row.viewport = r.viewport /\ row.name = r.canvasName
               /\ row.thumb = before
       /\ (NoThumbnailMade(r) /\ r.phase = "cleanup" /\ r \notin inflight') =>
            /\ saveError' = saveError /\ lastSavedTime' = "just now"]_vars
\* a save of a non-empty graph was accepted without a thumbnail
C19_Witness ==
  /\ inflight = {} /\ lastAccepted.kind # "none" /\ lastAccepted.hash[1] # <<>>
  /\ store # <<>> /\ store[1].nodes = lastAccepted.hash[1] /\ store[1].thumb = NoThumb
  /\ saveError = NoError /\ lastSavedTime = "just now"

\* C20: once the canvas view is unmounted no debounce timer is armed and no
\* animation frame is scheduled, so no save attempt starts and no frame
\* callback runs; the completion of a load or save that was in flight
\* changes nothing of the session's state (graph, viewport, save status,
\* record id, canvas name, timer, key handler).
C20_UnmountCancels ==
  [][~mounted =>
       /\ ~saveTimeout.armed /\ animation.scheduled = {}
       /\ attempts' = attempts
       /\ \A r \in inflight' : \E q \in inflight : q.n = r.n
       /\ animation' = animation
       /\ UNCHANGED <<mounted, graphVars, statusVars, saveTimeout, keyHandler>>]_vars
\* a save that was in flight at unmount has been accepted by the store; the
\* saving flag it raised is still up
C20_Witness ==
  /\ ~mounted /\ isLoaded /\ isSaving /\ inflight = {}
  /\ lastAccepted.kind # "none" /\ animation.ref > 1

\* C21: a single debounce timer is pending at a time, each arming replacing
\* the one before, so that a burst of mutations leads to at most one firing
\* of the timer: after a mutation the timer callback runs at most once
\* until the next mutation.
C21_OneFiringPerBurst == edits >= 1 => sinceEdit <= 1

\* C22: graph mutations and selection changes never re-initialize the
\* particle field (no re-scatter, no new connectivity, no energy reset).
C22_FieldNotReinitialized ==
  [][(edits' = edits + 1 /\ lastOp'.op # "pan") =>
       animation'.inits = animation.inits]_vars

\* C23: while the initial load is in progress no write reaches the store,
\* also when a manual-save command is issued: the empty graph of the
\* session never replaces a stored canvas.
C23_NoWriteWhileLoading == [][(mounted /\ loadPc = "loading") => store' = store]_vars

\* C24: after a failed load (label "error", fallback empty graph), as long
\* as the user makes no edit and issues no manual save, no write reaches
\* the store.
\* (the label still reads "error" from the load: no edit was made, and the
\* only save attempt so far, if any, is a debounced one still in flight)
AfterLoadFailure ==
  /\ mounted /\ loadPc = "done" /\ lastSavedTime = "error" /\ nodes = <<>>
  /\ edits = 0 /\ ManualRequests = {}
  /\ attempts = Cardinality(AutoRequests) /\ attempts <= 1
C24_NoWriteAfterLoadFailure == [][AfterLoadFailure => store' = store]_vars

\* C25: the snapshot a manual save writes is the in-memory node and edge
\* list of the moment the command is issued.
C25_ManualSaveSnapshotCurrent == \A r \in ManualRequests : r.current

\* C26: when the save requests of a session have all completed and were
\* accepted, no timer is pending and nothing is in flight, the stored record
\* holds the current in-memory snapshot, also when requests overlapped and
\* completed in either order.
Quiescent ==
  /\ mounted /\ isLoaded /\ inflight = {} /\ ~saveTimeout.armed
  /\ attempts >= 2 /\ saveError = NoError /\ lastSavedTime = "just now"
  \* the latest debounced attempt began after the last mutation and was accepted
  /\ sinceEdit >= 1 /\ lastAuto.status = "accepted"
C26_StoreHoldsCurrentSnapshot ==
  Quiescent =>
    /\ HasId(store, currentCanvasId)
    /\ LET row == ById(store, currentCanvasId)
       IN row.nodes = nodes /\ row.edges = edges /\ row.viewport = rfViewport

\* C27: after the canvas name was changed in the editor, the next run of
\* the debounce timer starts a save that carries the new name: when the
\* timer fires while the stored record of the session has another name than
\* the one the timer holds, a request with the timer's name is issued.
RenamePending ==
  /\ TimerDue /\ isLoaded /\ saveTimeout.canvasName = canvasName
  /\ HasId(store, currentCanvasId)
  /\ ById(store, currentCanvasId).name # canvasName
C27_RenameIsSaved ==
  [][(RenamePending /\ saveTimeout' = NoTimer) =>
       \E r \in inflight' \ inflight : r.canvasName = canvasName]_vars

\* C28: while the editor is mounted, isSaving is TRUE exactly when the load
\* or at least one save attempt of the session is still running, also when
\* two save attempts overlap.
C28_IsSavingIffInFlight ==
  mounted => (isSaving <=> (loadPc = "loading" \/ inflight # {}))

\* C29: when the load query succeeds and matches no record (by the given
\* canvas id, or by the default name when no id is given), the session starts
\* with an empty graph, label "never" and no known record id.
NoMatch ==
  IF canvasIdProp # NoId THEN ~HasId(store, canvasIdProp) ELSE ~HasName(store, DefaultName)
LoadAnswered ==
  /\ mounted /\ loadPc = "loading" /\ loadPc' = "done"
  /\ saveError' # "Failed to load canvas data"
C29_NoMatchStartsFresh ==
  [][(LoadAnswered /\ NoMatch) =>
       /\ nodes' = <<>> /\ edges' = <<>>
       /\ lastSavedTime' = "never" /\ currentCanvasId' = NoId]_vars

\* C30: auto-arrange on n >= 1 nodes puts the node at index i (from 0) at
\* (startX + (i mod cols) * 300, startY + floor(i / cols) * 300) with
\* cols = ceil(sqrt(n)); the n positions are pairwise distinct and their
\* bounding box is centered on the origin; node set, order, ids, data,
\* selection and the edges are unchanged; an empty graph is never arranged.
OrganizeStep == lastOp'.op = "organize" /\ edits' = edits + 1
Xs(ns) == {ns[i].x : i \in DOMAIN ns}
Ys(ns) == {ns[i].y : i \in DOMAIN ns}
SetMin(S) == CHOOSE m \in S : \A k \in S : m <= k
SetMax(S) == CHOOSE m \in S : \A k \in S : m >= k
C30_ArrangeGrid ==
  [][OrganizeStep =>
       LET n == Len(nodes)
           cols == CHOOSE c \in 1..n : c * c >= n /\ (c - 1) * (c - 1) < n
           rows == CHOOSE q \in 1..n : q * cols >= n /\ (q - 1) * cols < n
           startX == 0 - ((cols - 1) * 300) \div 2
           startY == 0 - ((rows - 1) * 300) \div 2
       IN /\ n >= 1
          /\ Len(nodes') = n
          /\ \A i \in 1..n :
               nodes'[i] = [nodes[i] EXCEPT !.x = startX + ((i - 1) % cols) * 300,
                                            !.y = startY + ((i - 1) \div cols) * 300]
          /\ \A i, j \in 1..n :
               i # j => <<nodes'[i].x, nodes'[i].y>> # <<nodes'[j].x, nodes'[j].y>>
          /\ SetMin(Xs(nodes')) + SetMax(Xs(nodes')) = 0
          /\ SetMin(Ys(nodes')) + SetMax(Ys(nodes')) = 0
          /\ edges' = edges /\ nodeIdCounter' = nodeIdCounter]_vars
\* C30 at work: five nodes, one of them selected and two of them connected,
\* have just been arranged on a 3 x 2 grid whose last row is not full.
C30_Witness ==
  /\ lastOp.op = "organize" /\ Len(nodes) = 5 /\ edges # <<>>
  /\ \E i \in DOMAIN nodes : nodes[i].selected
  /\ Cardinality(Ys(nodes)) >= 2
  /\ Cardinality(Xs(nodes)) > Cardinality({i \in DOMAIN nodes : nodes[i].y = SetMax(Ys(nodes))})

\* C1: while the initial load has not completed (isLoaded is false) no
\* debounce timer is armed and no debounced save attempt is writing to the
\* store.
C1_NoSaveBeforeLoad ==
  ~isLoaded => (~saveTimeout.armed /\ AutoRequests = {})

\* C1 at work: the graph was edited while the load was still pending.
C1_Witness ==
  ~isLoaded /\ edits >= 1 /\ nodes # <<>> /\ ~saveTimeout.armed

\* C2: for a burst of mutations after load, exactly one debounced save
\* attempt starts, after the last mutation, and the snapshot it serializes
\* is the nodes and edges as they are after the last mutation: no debounced
\* request is made by a timer that fires after the timer of the last
\* mutation has fired already, and an armed timer holds the current nodes
\* and edges.
C2_OneAttemptPerBurst ==
  /\ \A r \in AutoRequests : r.burst => ~r.idle
  /\ saveTimeout.armed => (saveTimeout.nodes = nodes /\ saveTimeout.edges = edges)

\* C3: only a mutation of the graph or of the viewport re-arms the debounce
\* timer (so the pending attempt starts 2 seconds after the last mutation
\* although the 16 ms viewport poll keeps running): a step that takes a due
\* timer back to a fresh one changes nodes, edges or the viewport (or loads,
\* or adopts the record id of a first save).
C3_OnlyMutationsRearm ==
  [][(TimerDue /\ saveTimeout'.armed /\ saveTimeout'.elapsed < DebounceDelay) =>
       \/ nodes' # nodes \/ edges' # edges
       \/ viewport' # viewport \/ rfViewport' # rfViewport
       \/ isLoaded' # isLoaded \/ currentCanvasId' # currentCanvasId]_vars

\* C4: of two consecutive debounced save attempts with identical snapshots,
\* the first of which the store accepted, the second performs no write: no
\* debounced request reaches the store with the snapshot of an accepted
\* previous debounced attempt.
C4_IdenticalSnapshotNotRewritten ==
  \A r \in AutoRequests : ~r.dupAuto

\* C5: a manual save follows the steps of a debounced save: a manual save
\* whose snapshot is that of the last accepted save performs no write, and
\* a debounced attempt whose snapshot is that of an accepted manual save
\* performs no write.
C5_ManualSaveUsesFingerprint ==
  /\ \A r \in ManualRequests : ~r.dupAny
  /\ \A r \in AutoRequests : ~(r.dupAny /\ r.afterKind = "manual")

\* C6: load an empty or absent canvas, add one text node, stay idle: one
\* upsert, with one node and zero edges; loading by itself causes no write.
\* Hence no debounced request carries the empty graph of a session in which
\* nothing was added yet.
C6_LoadAloneWritesNothing ==
  (edits = 0 /\ nodes = <<>>) => AutoRequests = {}

\* C7: when the store rejects a save (debounced or manual), the attempt ends
\* with a non-null error, the label "error" and isSaving false; the
\* last-accepted fingerprint is not advanced, and nodes, edges and viewport
\* are left as they are.
Rejected(r) ==
  r.phase = "save" /\ \A q \in inflight' : q.n # r.n
C7_RejectedSave ==
  [][\A r \in inflight : Rejected(r) =>
       /\ mounted => (saveError' # NoError /\ lastSavedTime' = "error" /\ isSaving' = FALSE)
       /\ lastSaveDataRef' = lastSaveDataRef
       /\ nodes' = nodes /\ edges' = edges
       /\ viewport' = viewport /\ rfViewport' = rfViewport]_vars

\* C7 at work: the debounced save of an edited graph was rejected.
C7_Witness ==
  /\ lastAuto.status = "rejected" /\ edits >= 1 /\ nodes # <<>>
  /\ saveError = "Auto-save failed" /\ lastSavedTime = "error" /\ ~isSaving
  /\ lastSaveDataRef = EmptyHash

\* C8: after a failed save, the next save attempt (debounced or manual)
\* writes the complete current snapshot, including the edit whose save
\* failed: a request made while the failure is the latest event carries the
\* current nodes and edges.
C8_RetryWritesCurrentSnapshot ==
  \A r \in inflight : r.afterFail => r.current

\* C9: after a failed save no further save attempt starts until the next
\* graph or viewport mutation or the next manual save: no debounced request
\* is made after a failure by a timer that no mutation armed.
C9_NoRetryWithoutMutation ==
  \A r \in AutoRequests : ~(r.afterFail /\ r.idle)

\* C10: after any sequence of create, connect, delete-selected,
\* duplicate-selected, auto-arrange and output spawning, every edge has a
\* source and a target among the current nodes, and so has every snapshot
\* held for a save (by the debounce timer, by the keydown handler).
C10_NoDanglingEdges ==
  /\ Dangling(nodes, edges) = {}
  /\ Dangling(keyHandler.nodes, keyHandler.edges) = {}
  /\ saveTimeout.armed => Dangling(saveTimeout.nodes, saveTimeout.edges) = {}

\* C10 at work: delete-selected has just removed a node together with an
\* edge that ended at it, and a node is left.
C10_Witness ==
  lastOp.op = "delete" /\ lastOp.edgesBefore > Len(edges) /\ nodes # <<>>

====
